---- MODULE Spec2Model ----
(***************************************************************************)
(* Model of the Vuforia Web Services client: the CRUD operations of        *)
(* vuforia_client.go, request preparation and signing (prepare, sign), and *)
(* the polling helper WaitUntilProcessed of wait.go.                       *)
(*                                                                         *)
(* One caller goroutine makes library calls one after the other: a CRUD    *)
(* operation on a client built by NewClient, or a WaitUntilProcessed run   *)
(* against an arbitrary implementation of the Client interface.  The HTTP  *)
(* transport, the server, the clock, the interval timer and the context's  *)
(* cancellation are the environment.                                       *)
(*                                                                         *)
(* Text that the code inspects character by character (result codes,       *)
(* statuses) is a sequence of one-character strings.                       *)
(***************************************************************************)
EXTENDS Integers, Sequences, FiniteSets, TLC

VARIABLES
    \* ---- WaitUntilProcessed (wait.go) ----
    wpc,          \* position of the waiter: "idle", "select", "poll", "done"
    interval,     \* local variable interval, in seconds
    timerDur,     \* duration of the timer created by time.After(interval)
    timerFired,   \* a value is ready on the timer's channel
    ctxDone,      \* ctx.Done() is closed
    polls,        \* number of client.GetTarget calls issued by this run
    waits,        \* duration of the timer that preceded each poll
    outcomes,     \* what each completed poll returned
    pollsAtCancel,\* polls at the moment ctx.Done() was closed (-1: not closed)
    wresult,      \* [returned, err] of WaitUntilProcessed
    \* ---- CRUD operations (vuforia_client.go) ----
    cpc,          \* position of the operation
    call,         \* the operation invoked and its input
    req,          \* the *http.Request under construction
    signLog,      \* what each call of sign read from the request
    transportLog, \* requests handed to an HTTP client during this call
    lastResp,     \* what the transport answered
    decoded,      \* which JSON decodings ran on the response body
    cresult,      \* (response, error) returned by the operation
    clock,        \* time.Now(), in ticks since the operation was invoked
    deleted,      \* ids for which a DeleteTarget succeeded on the server
    cfg,          \* the ClientConfig held by the client NewClient returned
    \* ---- sign, called on its own ----
    signIn,       \* the arguments of each call of sign
    signOut       \* the signature each call returned

wvars == <<wpc, interval, timerDur, timerFired, ctxDone, polls, waits, outcomes,
           pollsAtCancel, wresult>>
cvars == <<cpc, call, req, signLog, transportLog, lastResp, decoded, cresult,
           clock, deleted, cfg>>
vars == <<wpc, interval, timerDur, timerFired, ctxDone, polls, waits, outcomes,
          pollsAtCancel, wresult, cpc, call, req, signLog, transportLog,
          lastResp, decoded, cresult, clock, deleted, cfg, signIn, signOut>>
svars == <<signIn, signOut>>

----------------------------------------------------------------------------
(* Bounds of the model *)

\* polls one WaitUntilProcessed run may issue before the model stops it
MaxPolls == 3
\* ticks the clock may advance during one operation
MaxClock == 3
\* calls of sign whose arguments and results are compared
MaxSigns == 2

----------------------------------------------------------------------------
(* Text *)

UpperRunes == <<"A","B","C","D","E","F","G","H","I","J","K","L","M",
                "N","O","P","Q","R","S","T","U","V","W","X","Y","Z">>
LowerRunes == <<"a","b","c","d","e","f","g","h","i","j","k","l","m",
                "n","o","p","q","r","s","t","u","v","w","x","y","z">>

\* unicode.ToLower on the ASCII runes the model uses
ToLowerRune(c) ==
    IF \E i \in DOMAIN UpperRunes : UpperRunes[i] = c
    THEN LowerRunes[CHOOSE i \in DOMAIN UpperRunes : UpperRunes[i] = c]
    ELSE c

\* strings.ToLower(s)
ToLower(s) == [i \in 1..Len(s) |-> ToLowerRune(s[i])]

\* strings.EqualFold(s, t): equal under simple case folding, rune by rune
EqualFold(s, t) ==
    /\ Len(s) = Len(t)
    /\ \A i \in 1..Len(s) : ToLowerRune(s[i]) = ToLowerRune(t[i])

RequestQuotaReached ==
    <<"R","e","q","u","e","s","t","Q","u","o","t","a","R","e","a","c","h","e","d">>
UnknownTarget ==
    <<"U","n","k","n","o","w","n","T","a","r","g","e","t">>
sSuccess == <<"s","u","c","c","e","s","s">>
sFailed == <<"f","a","i","l","e","d">>
sProcessing == <<"p","r","o","c","e","s","s","i","n","g">>

----------------------------------------------------------------------------
(* Errors.  An error value is its Unwrap chain, outermost first; the nil   *)
(* error is the empty chain.                                               *)

NilErr == <<>>

\* APIError{ResultCode: code, TransactionId: tx}, passed by value
APIError(code, tx) == <<[type |-> "APIError", code |-> code, tx |-> tx]>>
\* &APIError{...}: a different dynamic type
PtrAPIError(code, tx) == <<[type |-> "*APIError", code |-> code, tx |-> tx]>>
\* errors.New(msg) / fmt.Errorf(msg) without %w
ErrorString(msg) == <<[type |-> "errorString", code |-> <<>>, tx |-> msg]>>
\* fmt.Errorf("...: %w", inner)
Wrap(inner) == <<[type |-> "wrapError", code |-> <<>>, tx |-> "wrap"]>> \o inner

\* ctx.Err() once ctx.Done() is closed
CtxErr == ErrorString("context canceled")

\* errors.As(err, &ae) with ae of type APIError: TRUE iff some error of the
\* chain has dynamic type APIError
AsAPIError(err) == \E i \in 1..Len(err) : err[i].type = "APIError"
\* ... and ae is then the first such error
AsAPIErrorTarget(err) ==
    err[CHOOSE i \in 1..Len(err) :
            /\ err[i].type = "APIError"
            /\ \A j \in 1..(i-1) : err[j].type # "APIError"]

----------------------------------------------------------------------------
(* WaitUntilProcessed *)

defaultInterval == 5
extendedInterval == 30

\* the value WaitUntilProcessed has when it has not returned
NotReturned == [returned |-> FALSE, err |-> NilErr]
Returned(err) == [returned |-> TRUE, err |-> err]

\* Statuses a Get-target response may carry
PollStatuses ==
    { sSuccess, sFailed, sProcessing,
      <<"S","u","c","c","e","s","s">>,
      <<"F","A","I","L","E","D">>,
      <<"P","r","o","c","e","s","s","i","n","g">>,
      <<"q","u","e","u","e","d">>,
      <<>> }

\* Errors an implementation of Client.GetTarget may return
PollErrors ==
    { APIError(RequestQuotaReached, "tx"),
      APIError(ToLower(RequestQuotaReached), "tx"),
      APIError(UnknownTarget, "tx"),
      Wrap(APIError(RequestQuotaReached, "tx")),
      PtrAPIError(RequestQuotaReached, "tx"),
      ErrorString("connection reset") }

\* (output, err) of one client.GetTarget call: output is nil with an error
PollOutcomes ==
    [err : {NilErr}, status : PollStatuses] \cup [err : PollErrors, status : {<<>>}]

\* IsRateLimit without the comparison of the result code
IsRateLimit_AnyAPIError(err) == AsAPIError(err)

\* wait.go:23-24: the error is the rate-limit error
IsRateLimit(err) ==
    /\ AsAPIError(err)
    /\ EqualFold(AsAPIErrorTarget(err).code, RequestQuotaReached)

\* IsTerminalStatus without strings.ToLower
IsTerminalStatus_CaseSensitive(status) == status \in {sFailed, sSuccess}

\* wait.go:32-34: the status ends the wait
IsTerminalStatus(status) == ToLower(status) \in {sFailed, sSuccess}

\* IntervalAfterTick without the reset of wait.go:19
IntervalAfterTick_Kept(iv) == iv

\* wait.go:19: the interval after the timer case was taken
IntervalAfterTick(iv) == defaultInterval

\* AfterPoll continuing after every failed poll
AfterPoll_RetryAll(o, iv) ==
    IF o.err # NilErr
    THEN [ret |-> FALSE, err |-> NilErr,
          interval |-> IF IsRateLimit(o.err) THEN extendedInterval ELSE iv]
    ELSE IF IsTerminalStatus(o.status)
         THEN [ret |-> TRUE, err |-> NilErr, interval |-> iv]
         ELSE [ret |-> FALSE, err |-> NilErr, interval |-> iv]

\* wait.go:22-39: what the loop body does with the result of the poll, given
\* the interval iv it holds: return err, return nil, or continue with an interval
AfterPoll(o, iv) ==
    IF o.err # NilErr
    THEN IF IsRateLimit(o.err)
         THEN [ret |-> FALSE, err |-> NilErr, interval |-> extendedInterval]
         ELSE [ret |-> TRUE, err |-> o.err, interval |-> iv]
    ELSE IF IsTerminalStatus(o.status)
         THEN [ret |-> TRUE, err |-> NilErr, interval |-> iv]
         ELSE [ret |-> FALSE, err |-> NilErr, interval |-> iv]

\* CtxDoneResult returning nil
CtxDoneResult_Nil == Returned(NilErr)

\* wait.go:16-17: what the ctx.Done() case returns
CtxDoneResult == Returned(CtxErr)

WaitIdle ==
    /\ wpc = "idle"
    /\ interval = defaultInterval
    /\ timerDur = defaultInterval
    /\ timerFired = FALSE
    /\ ctxDone = FALSE
    /\ polls = 0
    /\ waits = <<>>
    /\ outcomes = <<>>
    /\ pollsAtCancel = -1
    /\ wresult = NotReturned

\* wait.go:10-15: the caller invokes WaitUntilProcessed; the first select
\* creates a timer of the default interval
WaitStart ==
    /\ wpc = "idle"
    /\ cpc = "idle"
    /\ wpc' = "select"
    /\ UNCHANGED <<interval, timerDur, timerFired, ctxDone, polls, waits,
                   outcomes, pollsAtCancel, wresult>>
    /\ UNCHANGED cvars
    /\ UNCHANGED svars

\* the runtime delivers the timer's value (wait.go:18, time.After)
TimerFire ==
    /\ wpc = "select"
    /\ ~timerFired
    /\ timerFired' = TRUE
    /\ UNCHANGED <<wpc, interval, timerDur, ctxDone, polls, waits, outcomes,
                   pollsAtCancel, wresult>>
    /\ UNCHANGED cvars
    /\ UNCHANGED svars

\* the context is cancelled while the waiter runs (wait.go:16, ctx.Done())
CtxCancel ==
    /\ wpc \in {"select", "poll"}
    /\ ~ctxDone
    /\ ctxDone' = TRUE
    /\ pollsAtCancel' = polls
    /\ UNCHANGED <<wpc, interval, timerDur, timerFired, polls, waits, outcomes,
                   wresult>>
    /\ UNCHANGED cvars
    /\ UNCHANGED svars

\* wait.go:16-17: select takes the ctx.Done() case
SelectCtxDone ==
    /\ wpc = "select"
    /\ ctxDone
    /\ wpc' = "done"
    /\ wresult' = CtxDoneResult
    /\ UNCHANGED <<interval, timerDur, timerFired, ctxDone, polls, waits,
                   outcomes, pollsAtCancel>>
    /\ UNCHANGED cvars
    /\ UNCHANGED svars

\* wait.go:18-21: select takes the timer case, resets the interval and calls
\* client.GetTarget.  When both cases are ready select takes either.
SelectTimer ==
    /\ wpc = "select"
    /\ timerFired
    /\ polls < MaxPolls
    /\ interval' = IntervalAfterTick(interval)
    /\ waits' = Append(waits, timerDur)
    /\ polls' = polls + 1
    /\ timerFired' = FALSE
    /\ wpc' = "poll"
    /\ UNCHANGED <<timerDur, ctxDone, outcomes, pollsAtCancel, wresult>>
    /\ UNCHANGED cvars
    /\ UNCHANGED svars

\* wait.go:21-39: client.GetTarget returns and the loop body handles it;
\* continue re-enters the select, which creates a timer of the interval
PollReturn ==
    /\ wpc = "poll"
    /\ \E o \in PollOutcomes :
         LET a == AfterPoll(o, interval) IN
         /\ outcomes' = Append(outcomes, o)
         /\ interval' = a.interval
         /\ IF a.ret
            THEN /\ wpc' = "done"
                 /\ wresult' = Returned(a.err)
                 /\ UNCHANGED timerDur
            ELSE /\ wpc' = "select"
                 /\ timerDur' = a.interval
                 /\ UNCHANGED wresult
    /\ UNCHANGED <<timerFired, ctxDone, polls, waits, pollsAtCancel>>
    /\ UNCHANGED cvars
    /\ UNCHANGED svars

\* the caller has the result; the next call starts from a fresh frame
WaitReturn ==
    /\ wpc = "done"
    /\ wpc' = "idle"
    /\ interval' = defaultInterval
    /\ timerDur' = defaultInterval
    /\ timerFired' = FALSE
    /\ ctxDone' = FALSE
    /\ polls' = 0
    /\ waits' = <<>>
    /\ outcomes' = <<>>
    /\ pollsAtCancel' = -1
    /\ wresult' = NotReturned
    /\ UNCHANGED cvars
    /\ UNCHANGED svars

----------------------------------------------------------------------------
(* The client and its requests *)

Ops == {"PostTarget", "GetTarget", "UpdateTarget", "DeleteTarget",
        "TargetSummary", "DatabaseSummary"}

\* target ids a caller passes; "" is the blank id
TargetIds == {"", "t1"}

\* vuforia_client.go:39-53: the configuration NewClient stores, for the
\* http.Client the caller supplied ("nil" when none); empty keys are rejected
NewClient(secretKey, accessKey, httpClient) ==
    [SecretKey |-> secretKey, AccessKey |-> accessKey,
     Client |-> IF httpClient = "nil" THEN "http.DefaultClient" ELSE httpClient]

\* every operation but DatabaseSummary takes a request struct, which may be nil
HasInput(op) == op # "DatabaseSummary"

\* RequiresTargetId with the check missing from TargetSummary
RequiresTargetId_NoSummary(op) ==
    op \in {"GetTarget", "UpdateTarget", "DeleteTarget"}

\* vuforia_client.go:145,201,252,316: operations that reject a blank TargetId
RequiresTargetId(op) ==
    op \in {"GetTarget", "UpdateTarget", "DeleteTarget", "TargetSummary"}

\* the http.Method* constant each operation passes to http.NewRequest
Method(op) ==
    CASE op = "PostTarget" -> <<"POST">>
      [] op = "UpdateTarget" -> <<"PUT">>
      [] op = "DeleteTarget" -> <<"DELETE">>
      [] OTHER -> <<"GET">>

\* the path of the URL each operation formats
Path(op, id) ==
    CASE op = "PostTarget" -> <<"/targets">>
      [] op \in {"GetTarget", "UpdateTarget", "DeleteTarget"} -> <<"/targets/", id>>
      [] op = "TargetSummary" -> <<"/summary/", id>>
      [] OTHER -> <<"/summary">>

\* the body []byte each operation passes to prepare: json.Marshal(input) for
\* PostTarget and UpdateTarget, nil for the others
NilBody == [nil |-> TRUE, bytes |-> <<>>]
Body(op, id) ==
    CASE op = "PostTarget" -> [nil |-> FALSE, bytes |-> <<"{", "name", "width", "image", "}">>]
      [] op = "UpdateTarget" -> [nil |-> FALSE, bytes |-> <<"{", "name", "}">>]
      [] OTHER -> NilBody

\* the *http.Client each operation calls Do on
ClientUsed(op, c) ==
    IF op \in {"PostTarget", "UpdateTarget"} THEN "http.DefaultClient" ELSE c.Client

NoAuthorization == [set |-> FALSE, scheme |-> "", access |-> "", sep |-> "",
                    signature |-> [key |-> "", msg |-> <<>>]]
NoRequest == [method |-> <<>>, path |-> <<>>, body |-> NilBody,
              header |-> [Date |-> <<>>, ContentType |-> <<>>,
                          Authorization |-> NoAuthorization]]

\* http.NewRequest(method, url, body): a request without headers
NewRequest(op, id) ==
    [NoRequest EXCEPT !.method = Method(op), !.path = Path(op, id),
                      !.body = Body(op, id)]

\* seconds per clock tick: the Date layout has a resolution of one second
TicksPerSecond == 2

DateStrings == <<"Mon, 02 Jan 2006 15:04:05 GMT", "Mon, 02 Jan 2006 15:04:06 GMT",
                 "Mon, 02 Jan 2006 15:04:07 GMT", "Mon, 02 Jan 2006 15:04:08 GMT">>

\* time.Now().UTC().Format("Mon, 02 Jan 2006 15:04:05 GMT") at tick t
FormatDate(t) == <<DateStrings[(t \div TicksPerSecond) + 1]>>

\* md5 of the bytes written, rendered by %x
MD5Hex(bytes) == <<"md5(">> \o bytes \o <<")">>

\* part_001:89-95: nothing is written to the hash for a nil body
MD5Input(body) == IF body.nil THEN <<>> ELSE body.bytes

\* CanonicalString without the timestamp
CanonicalString_NoDate(method, body, contentType, date, path) ==
    method \o <<"\n">> \o MD5Hex(MD5Input(body)) \o <<"\n">> \o contentType
           \o <<"\n">> \o path

\* part_001:98-104: the text written to the MAC
CanonicalString(method, body, contentType, date, path) ==
    method \o <<"\n">> \o MD5Hex(MD5Input(body)) \o <<"\n">> \o contentType
           \o <<"\n">> \o date \o <<"\n">> \o path

\* part_001:101: the Content-Type value sign uses, at tick now
SignContentType(r, now) == r.header.ContentType

\* SignDate formatting the time again instead of reading the header
SignDate_Recomputed(r, now) == FormatDate(now)

\* part_001:102: the Date value sign uses, at tick now
SignDate(r, now) == r.header.Date

\* part_001:88-110: base64 of the HMAC-SHA1, under secretKey, of the canonical
\* string; the MAC is kept as the pair of its key and its message
sign(secretKey, r, body, now) ==
    [key |-> secretKey,
     msg |-> CanonicalString(r.method, body, SignContentType(r, now),
                             SignDate(r, now), r.path)]

\* part_001:82: fmt.Sprintf("VWS %s:%s", accessKey, signature)
AuthorizationValue(accessKey, signature) ==
    [set |-> TRUE, scheme |-> "VWS ", access |-> accessKey, sep |-> ":",
     signature |-> signature]

----------------------------------------------------------------------------
(* Responses and results *)

rcSuccess == <<"S","u","c","c","e","s","s">>

\* result codes the server puts in its envelopes
ResultCodes == {rcSuccess, UnknownTarget, RequestQuotaReached}

\* HTTP status codes the server answers with
StatusCodes == {200, 403, 404, 429, 500, 503}

\* what Do returns: a transport error, or a response with a status and a body
\* that is a JSON envelope {result_code, transaction_id, ...} or is not JSON
TransportError == [kind |-> "error", status |-> 0, json |-> FALSE, rc |-> <<>>, tx |-> ""]
TransportResults ==
    {TransportError}
    \cup [kind : {"response"}, status : StatusCodes, json : {TRUE},
          rc : ResultCodes, tx : {"tx1"}]
    \cup [kind : {"response"}, status : StatusCodes, json : {FALSE},
          rc : {<<>>}, tx : {""}]

ErrTransport == ErrorString("transport error")
ErrDecode == ErrorString("json decode error")
ErrTargetId == ErrorString("TargetId must be provided")
ErrServer == ErrorString("the server encountered an internal error; please retry the request")

\* part_001:54-60
isServerError(status) == status >= 500
isAPIError(status) == status >= 400 /\ status < 500

\* part_001:37-52: the error for a response; decodes the body for a 4xx only
checkError(r) ==
    CASE isServerError(r.status) -> ErrServer
      [] isAPIError(r.status) -> IF r.json THEN APIError(r.rc, r.tx) ELSE ErrDecode
      [] OTHER -> NilErr

NilResp == [nil |-> TRUE, ResultCode |-> <<>>, TransactionId |-> ""]
NotCalled == [returned |-> FALSE, panic |-> FALSE, resp |-> NilResp, err |-> NilErr]
Result(resp, err) == [returned |-> TRUE, panic |-> FALSE, resp |-> resp, err |-> err]
Panic == [returned |-> FALSE, panic |-> TRUE, resp |-> NilResp, err |-> NilErr]

\* json.NewDecoder(resp.Body).Decode(&v) into the typed response
DecodeTyped(r) ==
    IF r.json
    THEN Result([nil |-> FALSE, ResultCode |-> r.rc, TransactionId |-> r.tx], NilErr)
    ELSE Result(NilResp, ErrDecode)

\* AfterDo calling checkError on the response before decoding it
AfterDo_Checked(op, r) ==
    IF r.kind = "error"
    THEN [result |-> Result(NilResp, ErrTransport), decoded |-> {}]
    ELSE IF checkError(r) # NilErr
    THEN [result |-> Result(NilResp, checkError(r)),
          decoded |-> IF isAPIError(r.status) THEN {"APIError"} ELSE {}]
    ELSE [result |-> DecodeTyped(r), decoded |-> {"typed"}]

\* vuforia_client.go:158-170 (and the same lines of the other operations):
\* what the operation returns for what Do returned, and the decodings it ran
AfterDo(op, r) ==
    IF r.kind = "error"
    THEN [result |-> Result(NilResp, ErrTransport), decoded |-> {}]
    ELSE [result |-> DecodeTyped(r), decoded |-> {"typed"}]

\* the server forgets a target when it answers a DeleteTarget with Success
ServerDeletes(op, r) ==
    /\ op = "DeleteTarget"
    /\ r.kind = "response"
    /\ r.status = 200
    /\ r.json
    /\ r.rc = rcSuccess

NoCall == [op |-> "none", isNil |-> FALSE, targetId |-> ""]
NoResp == [kind |-> "none", status |-> 0, json |-> FALSE, rc |-> <<>>, tx |-> ""]

CrudIdle ==
    /\ cpc = "idle"
    /\ call = NoCall
    /\ req = NoRequest
    /\ signLog = <<>>
    /\ transportLog = <<>>
    /\ lastResp = NoResp
    /\ decoded = {}
    /\ cresult = NotCalled

\* the first lines of each operation: the nil check, the TargetId check, and
\* the construction of the request (json.Marshal, http.NewRequest)
Invoke(op, isNil, id) ==
    /\ cpc = "idle"
    /\ wpc = "idle"
    /\ call' = [op |-> op, isNil |-> isNil, targetId |-> id]
    /\ IF HasInput(op) /\ isNil
       THEN /\ cpc' = "done"
            /\ cresult' = Panic
            /\ UNCHANGED req
       ELSE IF RequiresTargetId(op) /\ id = ""
       THEN /\ cpc' = "done"
            /\ cresult' = Result(NilResp, ErrTargetId)
            /\ UNCHANGED req
       ELSE /\ cpc' = "prepare"
            /\ req' = NewRequest(op, id)
            /\ UNCHANGED cresult
    /\ UNCHANGED <<signLog, transportLog, lastResp, decoded, clock, deleted, cfg>>
    /\ UNCHANGED wvars
    /\ UNCHANGED svars

Call ==
    \E op \in Ops, isNil \in BOOLEAN, id \in TargetIds :
        /\ (op \in {"PostTarget", "DatabaseSummary"} => id = "")
        /\ (~HasInput(op) => ~isNil)
        /\ (isNil => id = "")
        /\ Invoke(op, isNil, id)

\* part_001:75
PrepareSetDate ==
    /\ cpc = "prepare"
    /\ req' = [req EXCEPT !.header.Date = FormatDate(clock)]
    /\ cpc' = "setContentType"
    /\ UNCHANGED <<call, signLog, transportLog, lastResp, decoded, cresult, clock,
                   deleted, cfg>>
    /\ UNCHANGED wvars
    /\ UNCHANGED svars

\* part_001:76
PrepareSetContentType ==
    /\ cpc = "setContentType"
    /\ req' = [req EXCEPT !.header.ContentType = <<"application/json">>]
    /\ cpc' = "sign"
    /\ UNCHANGED <<call, signLog, transportLog, lastResp, decoded, cresult, clock,
                   deleted, cfg>>
    /\ UNCHANGED wvars
    /\ UNCHANGED svars

\* part_001:78: signature, err := sign(secretKey, req, body)
PrepareSign ==
    /\ cpc = "sign"
    /\ signLog' = Append(signLog, [header |-> req.header,
                                   signature |-> sign(cfg.SecretKey, req, req.body, clock)])
    /\ cpc' = "setAuthorization"
    /\ UNCHANGED <<call, req, transportLog, lastResp, decoded, cresult, clock,
                   deleted, cfg>>
    /\ UNCHANGED wvars
    /\ UNCHANGED svars

\* part_001:82
PrepareSetAuthorization ==
    /\ cpc = "setAuthorization"
    /\ req' = [req EXCEPT !.header.Authorization =
                  AuthorizationValue(cfg.AccessKey, signLog[Len(signLog)].signature)]
    /\ cpc' = "do"
    /\ UNCHANGED <<call, signLog, transportLog, lastResp, decoded, cresult, clock,
                   deleted, cfg>>
    /\ UNCHANGED wvars
    /\ UNCHANGED svars

\* resp, err := <client>.Do(req): the request is handed to the transport
Do ==
    /\ cpc = "do"
    /\ transportLog' = Append(transportLog, [via |-> ClientUsed(call.op, cfg), req |-> req])
    /\ cpc' = "inflight"
    /\ UNCHANGED <<call, req, signLog, lastResp, decoded, cresult, clock, deleted, cfg>>
    /\ UNCHANGED wvars
    /\ UNCHANGED svars

\* Do returns, and the operation decodes and returns
DoReturn ==
    /\ cpc = "inflight"
    /\ \E r \in TransportResults :
         LET a == AfterDo(call.op, r) IN
         /\ lastResp' = r
         /\ cresult' = a.result
         /\ decoded' = a.decoded
         /\ deleted' = IF ServerDeletes(call.op, r)
                       THEN deleted \cup {call.targetId} ELSE deleted
    /\ cpc' = "done"
    /\ UNCHANGED <<call, req, signLog, transportLog, clock, cfg>>
    /\ UNCHANGED wvars
    /\ UNCHANGED svars

\* the caller has the result (or recovered the panic)
Return ==
    /\ cpc = "done"
    /\ cpc' = "idle"
    /\ call' = NoCall
    /\ req' = NoRequest
    /\ signLog' = <<>>
    /\ transportLog' = <<>>
    /\ lastResp' = NoResp
    /\ decoded' = {}
    /\ cresult' = NotCalled
    /\ clock' = 0
    /\ UNCHANGED <<deleted, cfg>>
    /\ UNCHANGED wvars
    /\ UNCHANGED svars

\* time passes while an operation runs
Tick ==
    /\ cpc \notin {"idle", "done"}
    /\ clock < MaxClock
    /\ clock' = clock + 1
    /\ UNCHANGED <<cpc, call, req, signLog, transportLog, lastResp, decoded, cresult,
                   deleted, cfg>>
    /\ UNCHANGED wvars
    /\ UNCHANGED svars

----------------------------------------------------------------------------
(* The specification *)

\* http.Clients a caller may put in ClientConfig.Client
HttpClients == {"nil", "custom"}

Init ==
    /\ WaitIdle
    /\ CrudIdle
    /\ clock = 0
    /\ deleted = {}
    /\ cfg \in {NewClient("secret", "access", h) : h \in HttpClients}
    /\ signIn = <<>>
    /\ signOut = <<>>

Next ==
    \/ WaitStart
    \/ TimerFire
    \/ CtxCancel
    \/ SelectCtxDone
    \/ SelectTimer
    \/ PollReturn
    \/ WaitReturn
    \/ Call
    \/ PrepareSetDate
    \/ PrepareSetContentType
    \/ PrepareSign
    \/ PrepareSetAuthorization
    \/ Do
    \/ DoReturn
    \/ Return
    \/ Tick

Spec == Init /\ [][Next]_vars

----------------------------------------------------------------------------
(* sign as a function of its arguments *)

\* values of r.Method, the Content-Type header, the Date header and r.URL.Path;
\* a header value and a path may hold the newline that separates the fields
SignMethods == {<<"GET">>, <<"PUT">>}
SignContentTypes == {<<"application/json">>, <<"application/json", "\n", "x">>}
SignDates == {<<"Mon, 02 Jan 2006 15:04:05 GMT">>, <<"x", "\n", "Mon, 02 Jan 2006 15:04:05 GMT">>}
SignPaths == {<<"/targets/", "t1">>, <<"/targets/", "t1", "\n">>}
\* body []byte: nil, empty but not nil, and with content
SignBodies == {NilBody, [nil |-> FALSE, bytes |-> <<>>], [nil |-> FALSE, bytes |-> <<"{", "}">>]}

SignInputs ==
    [key : {"secret"}, method : SignMethods, contentType : SignContentTypes,
     date : SignDates, path : SignPaths, body : SignBodies]

\* the *http.Request that carries these values
SignRequest(in) ==
    [NoRequest EXCEPT !.method = in.method, !.path = in.path, !.body = in.body,
                      !.header.ContentType = in.contentType,
                      !.header.Date = in.date]

\* part_001:88-110: one call sign(secretKey, r, body)
SignCall ==
    /\ Len(signIn) < MaxSigns
    /\ \E in \in SignInputs :
         /\ signIn' = Append(signIn, in)
         /\ signOut' = Append(signOut, sign(in.key, SignRequest(in), in.body, clock))
    /\ UNCHANGED wvars
    /\ UNCHANGED cvars

\* the caller drops the signatures it holds
SignForget ==
    /\ signIn # <<>>
    /\ signIn' = <<>>
    /\ signOut' = <<>>
    /\ UNCHANGED wvars
    /\ UNCHANGED cvars

NextSign ==
    \/ SignCall
    \/ SignForget

SpecSign == Init /\ [][NextSign]_vars

----------------------------------------------------------------------------
(* Properties of WaitUntilProcessed *)

\* a successful response whose status is "success" or "failed", whatever the case
TerminalResponse(o) ==
    /\ o.err = NilErr
    /\ EqualFold(o.status, sSuccess) \/ EqualFold(o.status, sFailed)

\* a successful response with any other status
NonTerminalResponse(o) == o.err = NilErr /\ ~TerminalResponse(o)

\* the poll failed with APIError{ResultCode: "RequestQuotaReached"}
QuotaReachedError(err) ==
    /\ Len(err) = 1
    /\ err[1].type = "APIError"
    /\ err[1].code = RequestQuotaReached

\* the poll failed with an error that carries (errors.As) an APIError whose
\* result code is RequestQuotaReached in any case
RateLimitFailure(err) ==
    /\ \E i \in 1..Len(err) : err[i].type = "APIError"
    /\ LET first == CHOOSE i \in 1..Len(err) :
                       /\ err[i].type = "APIError"
                       /\ \A j \in 1..(i-1) : err[j].type # "APIError"
       IN ToLower(err[first].code) = ToLower(RequestQuotaReached)

\* C1: k successful non-terminal responses followed by a successful response
\* with status "success" or "failed" (any case), without cancellation: the
\* waiter has returned nil after exactly k+1 polls, each preceded by a wait of
\* 5 seconds, and no poll follows the terminal response.
C1_TerminalAfterK ==
    LET n == Len(outcomes) IN
    ( /\ n >= 1
      /\ ~ctxDone
      /\ \A i \in 1..(n-1) : NonTerminalResponse(outcomes[i])
      /\ TerminalResponse(outcomes[n]) )
    => /\ wpc = "done"
       /\ wresult = [returned |-> TRUE, err |-> <<>>]
       /\ polls = n
       /\ Len(waits) = n
       /\ \A i \in 1..n : waits[i] = 5

C1_Witness ==
    /\ wpc = "done"
    /\ ~ctxDone
    /\ wresult = [returned |-> TRUE, err |-> <<>>]
    /\ polls = 3
    /\ Len(outcomes) = 3
    /\ outcomes[1] = [err |-> <<>>, status |-> sProcessing]
    /\ outcomes[2] = [err |-> <<>>, status |-> <<"q","u","e","u","e","d">>]
    /\ outcomes[3] = [err |-> <<>>, status |-> <<"S","u","c","c","e","s","s">>]

\* C2: a poll that fails with APIError RequestQuotaReached is not fatal: the
\* waiter returns only if it is cancelled, the wait before the next poll is 30
\* seconds, and the wait after a poll that is no rate-limit failure (and before
\* the first poll) is 5 seconds; for [RequestQuotaReached, processing, success]
\* the waits are 5, 30, 5 and the waiter returns nil.
C2_RateLimitNotFatal ==
    LET n == Len(outcomes) IN
    /\ \A i \in 1..n : QuotaReachedError(outcomes[i].err) =>
          /\ (i = n => /\ wpc \in {"select", "poll", "done"}
                       /\ wpc # "done" => ~wresult.returned
                       /\ wpc = "select" => timerDur = 30
                       /\ wpc = "done" => (ctxDone /\ wresult.err = CtxErr))
          /\ (i + 1 <= Len(waits) => waits[i + 1] = 30)
    /\ \A i \in 1..n : ~RateLimitFailure(outcomes[i].err) =>
          /\ (i + 1 <= Len(waits) => waits[i + 1] = 5)
          /\ (i = n /\ wpc = "select" => timerDur = 5)
    /\ (Len(waits) >= 1 => waits[1] = 5)
    /\ ( outcomes = << [err |-> APIError(RequestQuotaReached, "tx"), status |-> <<>>],
                       [err |-> <<>>, status |-> sProcessing],
                       [err |-> <<>>, status |-> sSuccess] >>
         => (waits = <<5, 30, 5>> /\ wpc = "done" /\ wresult = [returned |-> TRUE, err |-> <<>>]) )

C2_Witness ==
    /\ wpc = "done"
    /\ ~ctxDone
    /\ outcomes = << [err |-> APIError(RequestQuotaReached, "tx"), status |-> <<>>],
                     [err |-> <<>>, status |-> sProcessing],
                     [err |-> <<>>, status |-> sSuccess] >>
    /\ waits = <<5, 30, 5>>
    /\ wresult = [returned |-> TRUE, err |-> <<>>]

\* C3 as stated: a poll that fails with any error other than the APIError value
\* with result code "RequestQuotaReached" makes the waiter return exactly that
\* error, with no further poll.
C3_Original ==
    LET n == Len(outcomes) IN
    ( /\ n >= 1
      /\ outcomes[n].err # <<>>
      /\ ~QuotaReachedError(outcomes[n].err) )
    => /\ wpc = "done"
       /\ wresult = [returned |-> TRUE, err |-> outcomes[n].err]
       /\ polls = n

\* C3, amended: a poll that fails with an error that carries no APIError whose
\* result code equals "RequestQuotaReached" under case folding (errors.As,
\* strings.EqualFold) makes the waiter return exactly that error, with no
\* further poll.
C3_OtherErrorFatal ==
    LET n == Len(outcomes) IN
    ( /\ n >= 1
      /\ outcomes[n].err # <<>>
      /\ ~RateLimitFailure(outcomes[n].err) )
    => /\ wpc = "done"
       /\ wresult = [returned |-> TRUE, err |-> outcomes[n].err]
       /\ polls = n

C3_Witness ==
    /\ wpc = "done"
    /\ Len(outcomes) = 2
    /\ polls = 2
    /\ outcomes[1] = [err |-> <<>>, status |-> sProcessing]
    /\ outcomes[2] = [err |-> APIError(UnknownTarget, "tx"), status |-> <<>>]
    /\ wresult = [returned |-> TRUE, err |-> APIError(UnknownTarget, "tx")]

\* C4 as stated: once ctx.Done() is closed before the waiter has returned, the
\* waiter issues no further poll and what it returns is ctx.Err().
C4_Original ==
    [][ (ctxDone /\ wpc \in {"select", "poll"})
        => /\ polls' = polls
           /\ (wpc' = "done" => wresult' = [returned |-> TRUE, err |-> CtxErr]) ]_vars

\* C4, amended: when ctx.Done() is closed and the interval timer has not fired
\* at the moment the select proceeds, the waiter returns ctx.Err() and issues
\* no further poll; and the waiter returns ctx.Err() only when ctx.Done() is
\* closed.
C4_CancelledSelect ==
    [][ /\ ( (wpc = "select" /\ ctxDone /\ ~timerFired /\ wpc' # "select")
             => /\ wpc' = "done"
                /\ wresult' = [returned |-> TRUE, err |-> CtxErr]
                /\ polls' = polls
                /\ outcomes' = outcomes )
        /\ ( (wpc' = "done" /\ wresult'.err = CtxErr) => ctxDone' ) ]_vars

C4_Witness ==
    /\ wpc = "done"
    /\ ctxDone
    /\ ~timerFired
    /\ polls = 2
    /\ pollsAtCancel = 2
    /\ Len(outcomes) = 2
    /\ wresult = [returned |-> TRUE, err |-> CtxErr]

----------------------------------------------------------------------------
(* Properties of the CRUD operations *)

\* the operation returned and the transport had answered with this response
Answered(r) == cpc = "done" /\ lastResp = r /\ r.kind = "response"

\* C5: GetTarget, UpdateTarget, DeleteTarget and TargetSummary with a non-nil
\* request whose TargetId is "" return a nil response and a non-nil error, and
\* during the call nothing is signed and nothing is handed to the transport.
C5_BlankIdRejected ==
    ( /\ call.op \in {"GetTarget", "UpdateTarget", "DeleteTarget", "TargetSummary"}
      /\ ~call.isNil
      /\ call.targetId = "" )
    => /\ cpc = "done"
       /\ cresult.returned
       /\ cresult.resp.nil
       /\ cresult.err # <<>>
       /\ signLog = <<>>
       /\ transportLog = <<>>
       /\ lastResp.kind = "none"

C5_Witness ==
    /\ cpc = "done"
    /\ call = [op |-> "TargetSummary", isNil |-> FALSE, targetId |-> ""]
    /\ cresult.returned
    /\ cresult.err # <<>>
    /\ transportLog = <<>>

\* C6: when the transport answers a CRUD operation with a 4xx status and a
\* JSON error envelope, the operation returns the APIError that carries the
\* envelope's result code and transaction id.
C6_ApiErrorReturned ==
    \A r \in TransportResults :
        (Answered(r) /\ r.status >= 400 /\ r.status < 500 /\ r.json)
        => cresult.err = <<[type |-> "APIError", code |-> r.rc, tx |-> r.tx]>>

\* C7: when the transport answers a CRUD operation with a status >= 500, the
\* operation returns a non-nil error that is no APIError, and the body is not
\* decoded as JSON, neither into an APIError nor into the typed response.
C7_ServerErrorNotDecoded ==
    \A r \in TransportResults :
        (Answered(r) /\ r.status >= 500)
        => /\ cresult.err # <<>>
           /\ \A i \in 1..Len(cresult.err) : cresult.err[i].type \notin {"APIError", "*APIError"}
           /\ cresult.resp.nil
           /\ decoded = {}

\* C8: an invocation of a CRUD operation hands at most one request to the
\* transport, whatever the outcome; and WaitUntilProcessed goes on after a
\* failed poll only when the failure is the RequestQuotaReached rate limit.
C8_NoRetry ==
    /\ Len(transportLog) <= 1
    /\ (cpc = "done" /\ lastResp.kind # "none" => Len(transportLog) = 1)
    /\ \A i \in 1..Len(outcomes) :
          ( /\ outcomes[i].err # <<>>
            /\ \/ i < Len(outcomes)
               \/ polls > Len(outcomes)
               \/ wpc = "select" )
          => RateLimitFailure(outcomes[i].err)

C8_Witness ==
    /\ cpc = "done"
    /\ call.op = "PostTarget"
    /\ lastResp.kind = "error"
    /\ cresult.err # <<>>
    /\ Len(transportLog) = 1

\* C9: a GetTarget of an id whose DeleteTarget succeeded, answered by the
\* server with the UnknownTarget result code, returns a nil error and a
\* non-nil response whose ResultCode is "UnknownTarget".
C9_GetAfterDelete ==
    \A r \in TransportResults :
        ( /\ Answered(r)
          /\ call.op = "GetTarget"
          /\ call.targetId \in deleted
          /\ r.json
          /\ r.rc = UnknownTarget )
        => /\ cresult.returned
           /\ cresult.err = <<>>
           /\ ~cresult.resp.nil
           /\ cresult.resp.ResultCode = UnknownTarget

C9_Witness ==
    /\ cpc = "done"
    /\ call = [op |-> "GetTarget", isNil |-> FALSE, targetId |-> "t1"]
    /\ "t1" \in deleted
    /\ lastResp = [kind |-> "response", status |-> 404, json |-> TRUE,
                   rc |-> UnknownTarget, tx |-> "tx1"]
    /\ cresult.err = <<>>
    /\ cresult.resp.ResultCode = UnknownTarget

\* C10: sign runs once Date and Content-Type are set and before Authorization
\* is; the request handed to the transport carries "VWS <access-id>:<signature>"
\* where the signature is over the canonical string of the Date and
\* Content-Type values that request carries; and neither header changes once
\* the signature is computed.
C10_SignedHeadersSent ==
    /\ \A i \in 1..Len(signLog) :
          /\ signLog[i].header.Date # <<>>
          /\ signLog[i].header.ContentType = <<"application/json">>
          /\ ~signLog[i].header.Authorization.set
          /\ req.header.Date = signLog[i].header.Date
          /\ req.header.ContentType = signLog[i].header.ContentType
    /\ (req.header.Authorization.set => Len(signLog) = 1)
    /\ \A i \in 1..Len(transportLog) :
          LET sent == transportLog[i].req IN
          sent.header.Authorization =
              [set |-> TRUE, scheme |-> "VWS ", access |-> cfg.AccessKey, sep |-> ":",
               signature |->
                  [key |-> cfg.SecretKey,
                   msg |-> sent.method \o <<"\n">>
                           \o MD5Hex(IF sent.body.nil THEN <<>> ELSE sent.body.bytes)
                           \o <<"\n">> \o sent.header.ContentType
                           \o <<"\n">> \o sent.header.Date
                           \o <<"\n">> \o sent.path]]

\* a request was sent whose Date header is no longer the current time
C10_Witness ==
    /\ cpc = "inflight"
    /\ Len(transportLog) = 1
    /\ transportLog[1].req.header.Authorization.set
    /\ transportLog[1].req.header.Date = <<"Mon, 02 Jan 2006 15:04:05 GMT">>
    /\ clock = MaxClock

----------------------------------------------------------------------------
(* Properties of sign *)

\* the number of the five signed fields in which two argument lists differ
FieldsDiffering(a, b) ==
    (IF a.method # b.method THEN 1 ELSE 0)
    + (IF a.path # b.path THEN 1 ELSE 0)
    + (IF a.contentType # b.contentType THEN 1 ELSE 0)
    + (IF a.date # b.date THEN 1 ELSE 0)
    + (IF a.body # b.body THEN 1 ELSE 0)

\* the two bodies are the nil body and the empty body
NilAndEmpty(a, b) ==
    /\ a.body # b.body
    /\ a.body.bytes = <<>>
    /\ b.body.bytes = <<>>

\* C11 as stated: equal arguments give equal signatures, and arguments that
\* differ in exactly one of method, path, content type, timestamp and body
\* (a nil body and an empty body being different bodies) give different
\* signatures.
C11_Original ==
    \A i, j \in 1..Len(signIn) :
        /\ (signIn[i] = signIn[j] => signOut[i] = signOut[j])
        /\ (FieldsDiffering(signIn[i], signIn[j]) = 1 => signOut[i] # signOut[j])

\* C11, amended: equal arguments give equal signatures, and arguments that
\* differ in exactly one of method, path, content type, timestamp and body
\* give different signatures, also when a value holds the newline separator,
\* except that a nil body and an empty body give the same signature.
C11_SignSensitive ==
    \A i, j \in 1..Len(signIn) :
        /\ (signIn[i] = signIn[j] => signOut[i] = signOut[j])
        /\ (FieldsDiffering(signIn[i], signIn[j]) = 1 =>
               (signOut[i] = signOut[j] <=> NilAndEmpty(signIn[i], signIn[j])))

\* two calls that differ in the timestamp only, one timestamp holding a newline
C11_Witness ==
    /\ Len(signIn) = 2
    /\ FieldsDiffering(signIn[1], signIn[2]) = 1
    /\ signIn[1].date = <<"Mon, 02 Jan 2006 15:04:05 GMT">>
    /\ signIn[2].date = <<"x", "\n", "Mon, 02 Jan 2006 15:04:05 GMT">>
    /\ signOut[1] # signOut[2]

----------------------------------------------------------------------------
(* Properties of the transport used *)

\* C12: every request of a CRUD operation is handed to the http.Client held in
\* the client's configuration: the one the caller supplied, and
\* http.DefaultClient only when the caller supplied none.
C12_ConfiguredTransport ==
    \A i \in 1..Len(transportLog) : transportLog[i].via = cfg.Client

====
